---- MODULE Spec2Model ----
(***************************************************************************)
(* Product catalog service: the product table (Prisma model Product), the  *)
(* functional product service with its repository and controller, and the  *)
(* older class-free service that talks to Prisma directly.  Every request  *)
(* is a process; each step between two awaits of a handler is one action.  *)
(***************************************************************************)
EXTENDS Integers, FiniteSets, Sequences, TLC

\* ------------------------------------------------------------------------
\* Bounds of the model
\* ------------------------------------------------------------------------
NumProcs == 2
MaxIds == 2
MaxQty == 2
MaxPage == 3
MaxLimit == 2
MaxPrice == 2

Procs == 1..NumProcs
Ids == 1..MaxIds
Skus == {"s1", "s2"}
\* quantities a request body may carry (one negative value included)
QtyInputs == (0 - 1)..MaxQty
Operations == {"set", "add", "subtract"}

\* rows, nextId: the products table and the next id it hands out
\* pc, req, loc:  each request's position, its validated input, the row it read
\* res:           the answer each request got (error name, HTTP status, value)
\* given:         what a concurrency scenario starts from: the stock of
\*                product 1 and the one call every client makes
\* deleted:       history: the ids whose DELETE request was answered 204
VARIABLES rows, nextId, pc, req, loc, res, given, deleted

vars == <<rows, nextId, pc, req, loc, res, given, deleted>>

\* ------------------------------------------------------------------------
\* Optional values: an absent field is the empty set, a present one {v}
\* ------------------------------------------------------------------------
None == {}
Some(v) == {v}
The(S) == CHOOSE x \in S : TRUE
Opt(S) == {None} \cup {Some(v) : v \in S}

\* ------------------------------------------------------------------------
\* The product table
\* ------------------------------------------------------------------------
\* price Decimal @db.Decimal(10, 2): a stored price is a Decimal object, not
\* a number; Number(decimal) is its numeric value
Decimal(n) == <<"Decimal", n>>
Number(decimal) == decimal[2]

NoRow == [exists |-> FALSE, id |-> 0, sku |-> "none", name |-> "none",
          description |-> None, category |-> "none", price |-> Decimal(0),
          quantity |-> 0, inStock |-> FALSE]

NoData == [sku |-> None, name |-> None, description |-> None,
           category |-> None, price |-> None, quantity |-> None,
           inStock |-> None]

\* page, limit, minPrice, maxPrice, search: the parsed query of a list
\* request (search is also the q of a search request);
\* total: the count it read; threshold: the one of a low-stock request
NoReq == [op |-> "none", id |-> 0, data |-> NoData, quantity |-> 0,
          operation |-> "set", page |-> 0, limit |-> 0, minPrice |-> None,
          maxPrice |-> None, search |-> None, total |-> 0, threshold |-> 0]

\* the body of a list response: data (product ids in the order returned) and
\* the pagination object, whose absent members are None
NoList == [data |-> <<>>, page |-> None, limit |-> None, total |-> None,
           totalPages |-> None, hasNext |-> None, hasPrev |-> None]

\* the product of a response that carries none
NoProduct == [id |-> 0, sku |-> "none", name |-> "none", description |-> None,
              category |-> "none", price |-> 0, quantity |-> 0,
              inStock |-> FALSE]

\* toProductResponse: the stored product with its price as a number
toProductResponse(product) ==
  [id |-> product.id, sku |-> product.sku, name |-> product.name,
   description |-> product.description, category |-> product.category,
   price |-> Number(product.price), quantity |-> product.quantity,
   inStock |-> product.inStock]

\* product: the data of the answer to a create or a get-by-id of the
\* functional surface
NoRes == [kind |-> "none", status |-> 0, ret |-> "none", list |-> NoList,
          product |-> NoProduct]

NoCall == [op |-> "none", quantity |-> 0, operation |-> "set"]

NoGiven == [quantity |-> 0, calls |-> [p \in Procs |-> NoCall]]

NewRow(id, data) ==
  [exists |-> TRUE, id |-> id, sku |-> The(data.sku), name |-> The(data.name),
   description |-> data.description, category |-> The(data.category),
   price |-> Decimal(The(data.price)),
   quantity |-> The(data.quantity), inStock |-> The(data.inStock)]

\* a lookup by id that loses the stored price
findByIdNoPrice(db, id) == [db[id] EXCEPT !.price = Decimal(0)]

\* prisma.product.findUnique({ where: { id } })
findById(db, id) == db[id]

\* prisma.product.findUnique({ where: { sku } })
findBySku(db, sku) ==
  IF \E i \in Ids : db[i].exists /\ db[i].sku = sku
  THEN db[CHOOSE i \in Ids : db[i].exists /\ db[i].sku = sku]
  ELSE NoRow

\* sku String @unique: a write that would give row id the sku of another row
UniqueViolationDropped(db, id, sku) == FALSE

UniqueViolation(db, id, sku) ==
  \E j \in Ids \ {id} : db[j].exists /\ db[j].sku = sku

\* the row after prisma.product.update({ where: { id }, data })
ApplyData(row, data) ==
  [row EXCEPT !.sku = IF data.sku = None THEN @ ELSE The(data.sku),
              !.name = IF data.name = None THEN @ ELSE The(data.name),
              !.description = IF data.description = None THEN @
                              ELSE data.description,
              !.category = IF data.category = None THEN @ ELSE The(data.category),
              !.price = IF data.price = None THEN @ ELSE Decimal(The(data.price)),
              !.quantity = IF data.quantity = None THEN @ ELSE The(data.quantity),
              !.inStock = IF data.inStock = None THEN @ ELSE The(data.inStock)]

\* the Prisma error code of prisma.product.update, "none" when it succeeds
PrismaUpdateError(db, id, data) ==
  IF ~db[id].exists THEN "P2025"
  ELSE IF data.sku # None /\ UniqueViolation(db, id, The(data.sku)) THEN "P2002"
  ELSE "none"

\* ------------------------------------------------------------------------
\* Error handlers of the two request surfaces
\* ------------------------------------------------------------------------
\* api/middlewares/error-handler.middleware.ts: no thrown error of the
\* functional service carries a statusCode, so the default is 500
errorHandler(name) ==
  IF name = "ValidationError" THEN 400
  ELSE IF name = "NotFoundError" THEN 404
  ELSE IF name = "ConflictError" THEN 409
  ELSE IF name = "PrismaClientKnownRequestError" THEN 400
  ELSE IF name = "PrismaClientValidationError" THEN 400
  ELSE 500

\* middleware/errorHandler.ts of the older surface (instanceof tests)
legacyErrorHandler(name) ==
  IF name = "ValidationError" THEN 400
  ELSE IF name = "ProductNotFoundError" THEN 404
  ELSE IF name = "DuplicateSKUError" THEN 409
  ELSE 500

Thrown(name) ==
  [kind |-> name, status |-> errorHandler(name), ret |-> "none", list |-> NoList,
   product |-> NoProduct]
LegacyThrown(name) ==
  [kind |-> name, status |-> legacyErrorHandler(name), ret |-> "none",
   list |-> NoList, product |-> NoProduct]
Returned(status, ret) ==
  [kind |-> "ok", status |-> status, ret |-> ret, list |-> NoList,
   product |-> NoProduct]

\* ------------------------------------------------------------------------
\* Initial state: an empty table, no request in flight
\* ------------------------------------------------------------------------
Init ==
  /\ rows = [i \in Ids |-> NoRow]
  /\ nextId = 1
  /\ pc = [p \in Procs |-> "idle"]
  /\ req = [p \in Procs |-> NoReq]
  /\ loc = [p \in Procs |-> NoRow]
  /\ res = [p \in Procs |-> NoRes]
  /\ given = NoGiven
  /\ deleted = {}

Idle(p) == pc[p] = "idle"

\* res.status(204) of a delete handler: the request was answered as deleted
DeleteSucceeds(p, r) ==
  req[p].op \in {"deleteProduct", "legacy_deleteProduct"} /\ r.kind = "ok"

\* a handler finishes: its response is kept, its locals are dropped
Finish(p, r) ==
  /\ pc' = [pc EXCEPT ![p] = "idle"]
  /\ req' = [req EXCEPT ![p] = NoReq]
  /\ loc' = [loc EXCEPT ![p] = NoRow]
  /\ res' = [res EXCEPT ![p] = r]
  /\ given' = given
  /\ deleted' = IF DeleteSucceeds(p, r) THEN deleted \cup {req[p].id} ELSE deleted

\* a handler moves on to its next await
Goto(p, label, r, l) ==
  /\ pc' = [pc EXCEPT ![p] = label]
  /\ req' = [req EXCEPT ![p] = r]
  /\ loc' = [loc EXCEPT ![p] = l]
  /\ res' = [res EXCEPT ![p] = NoRes]
  /\ given' = given
  /\ deleted' = deleted

\* requests that have passed validation and will still insert a row
InFlightCreates ==
  Cardinality({p \in Procs :
                 pc[p] \in {"create_findBySku", "create_insert", "legacy_create"}})

\* ------------------------------------------------------------------------
\* Functional service behind api/controllers/product.controller.ts
\* ------------------------------------------------------------------------
CreateBodies ==
  [sku : {Some(s) : s \in Skus}, name : {Some("n1")}, description : {None},
   category : {Some("c1")}, price : {Some(1)},
   quantity : Opt(QtyInputs), inStock : Opt(BOOLEAN)]

UpdateBodies ==
  [sku : Opt(Skus), name : Opt({"n2"}), description : {None},
   category : {None}, price : {None},
   quantity : Opt(QtyInputs), inStock : Opt(BOOLEAN)]

\* createProductSchema.parse: quantity defaults to 0, inStock to true
createProductSchema(body) ==
  [body EXCEPT !.quantity = IF body.quantity = None THEN Some(0) ELSE @,
               !.inStock = IF body.inStock = None THEN Some(TRUE) ELSE @]

\* z.number().int().min(0) on a supplied quantity
ZodRejects(body) == body.quantity # None /\ The(body.quantity) < 0

\* productController.create up to the first await of createProduct
controller_create(p, body) ==
  /\ Idle(p)
  /\ nextId + InFlightCreates <= MaxIds
  /\ IF ZodRejects(body)
     THEN Finish(p, Thrown("ZodError"))
     ELSE Goto(p, "create_findBySku",
               [NoReq EXCEPT !.op = "createProduct",
                             !.data = createProductSchema(body)], NoRow)
  /\ UNCHANGED <<rows, nextId>>

\* data.quantity || 0
QuantityOrZero(data) == IF data.quantity = None THEN 0 ELSE The(data.quantity)

\* createProduct: the find-by-sku check and the construction of productData
createProduct_findBySku(p) ==
  /\ pc[p] = "create_findBySku"
  /\ LET data == req[p].data
         existingProduct == findBySku(rows, The(data.sku))
         productData == [data EXCEPT !.quantity = Some(QuantityOrZero(data)),
                                     !.inStock = Some(QuantityOrZero(data) > 0)]
     IN IF existingProduct.exists
        THEN Finish(p, Thrown("Error"))
        ELSE Goto(p, "create_insert", [req[p] EXCEPT !.data = productData], NoRow)
  /\ UNCHANGED <<rows, nextId>>

\* productRepository.create: prisma.product.create({ data })
create(p) ==
  /\ pc[p] = "create_insert"
  /\ IF UniqueViolation(rows, nextId, The(req[p].data.sku))
     THEN /\ Finish(p, Thrown("PrismaClientKnownRequestError"))
          /\ UNCHANGED <<rows, nextId>>
     ELSE /\ rows' = [rows EXCEPT ![nextId] = NewRow(nextId, req[p].data)]
          /\ nextId' = nextId + 1
          /\ Finish(p, [Returned(201, "product") EXCEPT
                          !.product =
                            toProductResponse(NewRow(nextId, req[p].data))])

\* productController.reserveStock up to the first await of reserveProductStock
controller_reserveStock(p, id, quantity) ==
  /\ Idle(p)
  /\ IF quantity <= 0
     THEN Finish(p, Thrown("Error"))
     ELSE Goto(p, "reserve_check",
               [NoReq EXCEPT !.op = "reserveProductStock", !.id = id,
                             !.quantity = quantity], NoRow)
  /\ UNCHANGED <<rows, nextId>>

\* productRepository.checkStockAvailability
checkStockAvailabilityNoCompare(db, id, quantity) == db[id].exists

\* a check that takes a missing product for an available one
checkStockAvailabilityMissingOk(db, id, quantity) ==
  IF db[id].exists THEN db[id].quantity >= quantity ELSE TRUE

checkStockAvailability(db, id, quantity) ==
  IF db[id].exists THEN db[id].quantity >= quantity ELSE FALSE

\* reserveProductStock: the availability check; false is answered with 400
reserveProductStock_check(p) ==
  /\ pc[p] = "reserve_check"
  /\ IF checkStockAvailability(rows, req[p].id, req[p].quantity)
     THEN Goto(p, "reserve_updateStock", req[p], NoRow)
     ELSE Finish(p, Returned(400, "false"))
  /\ UNCHANGED <<rows, nextId>>

\* productRepository.updateStock: atomic decrement, inStock from the amount
\* reserved; a failing write is caught and answered with null
updateStock(db, id, quantity) ==
  IF db[id].exists
  THEN [db EXCEPT ![id].quantity = @ - quantity, ![id].inStock = quantity > 0]
  ELSE db

\* reserveProductStock: the decrement; its result is not inspected
reserveProductStock_updateStock(p) ==
  /\ pc[p] = "reserve_updateStock"
  /\ rows' = updateStock(rows, req[p].id, req[p].quantity)
  /\ Finish(p, Returned(200, "true"))
  /\ UNCHANGED nextId

\* productController.updateStock: only quantity is read from the body
controller_updateStock(p, id, quantity, operation) ==
  /\ Idle(p)
  /\ IF quantity < 0
     THEN Finish(p, Thrown("Error"))
     ELSE Goto(p, "stock_findById",
               [NoReq EXCEPT !.op = "updateProductStock", !.id = id,
                             !.quantity = quantity, !.operation = operation],
               NoRow)
  /\ UNCHANGED <<rows, nextId>>

\* updateProductStock: the existence check
updateProductStock_findById(p) ==
  /\ pc[p] = "stock_findById"
  /\ LET product == findById(rows, req[p].id)
     IN IF ~product.exists
        THEN Finish(p, Thrown("Error"))
        ELSE Goto(p, "stock_update", req[p], product)
  /\ UNCHANGED <<rows, nextId>>

\* productRepository.update: prisma.product.update, any error becomes null
update(db, id, data) ==
  IF PrismaUpdateError(db, id, data) = "none"
  THEN [db EXCEPT ![id] = ApplyData(@, data)]
  ELSE db

\* updateProductStock: the write of { quantity, inStock: quantity > 0 }
updateProductStock_update(p) ==
  /\ pc[p] = "stock_update"
  /\ LET data == [NoData EXCEPT !.quantity = Some(req[p].quantity),
                                !.inStock = Some(req[p].quantity > 0)]
     IN /\ rows' = update(rows, req[p].id, data)
        /\ IF PrismaUpdateError(rows, req[p].id, data) = "none"
           THEN Finish(p, Returned(200, "product"))
           ELSE Finish(p, Thrown("Error"))
  /\ UNCHANGED nextId

\* productController.delete up to the first await of deleteProduct
controller_delete(p, id) ==
  /\ Idle(p)
  /\ Goto(p, "delete_findById",
          [NoReq EXCEPT !.op = "deleteProduct", !.id = id], NoRow)
  /\ UNCHANGED <<rows, nextId>>

\* deleteProduct: the existence check
deleteProduct_findById(p) ==
  /\ pc[p] = "delete_findById"
  /\ IF ~findById(rows, req[p].id).exists
     THEN Finish(p, Thrown("Error"))
     ELSE Goto(p, "delete_softDelete", req[p], NoRow)
  /\ UNCHANGED <<rows, nextId>>

\* productRepository.delete: soft delete, the row stays with inStock false
deleteProduct(db, id) ==
  IF db[id].exists THEN [db EXCEPT ![id].inStock = FALSE] ELSE db

\* deleteProduct: the soft delete; its result is not inspected
deleteProduct_delete(p) ==
  /\ pc[p] = "delete_softDelete"
  /\ rows' = deleteProduct(rows, req[p].id)
  /\ Finish(p, Returned(204, "none"))
  /\ UNCHANGED nextId

\* productRepository.hardDelete: prisma.product.delete removes the row; a
\* failing delete is caught
hardDelete(db, id) ==
  IF db[id].exists THEN [db EXCEPT ![id] = NoRow] ELSE db

\* a direct call of productRepository.hardDelete (no service or route makes
\* it) up to its await
hardDelete_call(p, id) ==
  /\ Idle(p)
  /\ Goto(p, "hardDelete_delete", [NoReq EXCEPT !.op = "hardDelete", !.id = id],
          NoRow)
  /\ UNCHANGED <<rows, nextId>>

\* hardDelete: the delete; it returns the removed product, or null when the
\* delete failed
hardDelete_delete(p) ==
  /\ pc[p] = "hardDelete_delete"
  /\ rows' = hardDelete(rows, req[p].id)
  /\ IF rows[req[p].id].exists
     THEN Finish(p, [NoRes EXCEPT !.kind = "ok", !.ret = "product",
                                  !.product =
                                    toProductResponse(rows[req[p].id])])
     ELSE Finish(p, [NoRes EXCEPT !.kind = "ok", !.ret = "null"])
  /\ UNCHANGED nextId

\* productController.update up to the first await of updateProduct
controller_update(p, id, body) ==
  /\ Idle(p)
  /\ IF ZodRejects(body)
     THEN Finish(p, Thrown("ZodError"))
     ELSE Goto(p, "update_findById",
               [NoReq EXCEPT !.op = "updateProduct", !.id = id, !.data = body],
               NoRow)
  /\ UNCHANGED <<rows, nextId>>

\* updateProduct: the existence check, then the choice of the sku check
updateProduct_findById(p) ==
  /\ pc[p] = "update_findById"
  /\ LET existingProduct == findById(rows, req[p].id)
         data == req[p].data
     IN IF ~existingProduct.exists
        THEN Finish(p, Thrown("Error"))
        ELSE IF data.sku # None /\ The(data.sku) # existingProduct.sku
        THEN Goto(p, "update_findBySku", req[p], existingProduct)
        ELSE Goto(p, "update_write", req[p], existingProduct)
  /\ UNCHANGED <<rows, nextId>>

\* updateProduct: the sku uniqueness check
updateProduct_findBySku(p) ==
  /\ pc[p] = "update_findBySku"
  /\ IF findBySku(rows, The(req[p].data.sku)).exists
     THEN Finish(p, Thrown("Error"))
     ELSE Goto(p, "update_write", req[p], loc[p])
  /\ UNCHANGED <<rows, nextId>>

\* updatedData: inStock from the supplied quantity, else the value read before
updatedData(data, existingProduct) ==
  [data EXCEPT !.inStock = Some(IF data.quantity # None
                                THEN The(data.quantity) > 0
                                ELSE existingProduct.inStock)]

\* updateProduct: the write
updateProduct_update(p) ==
  /\ pc[p] = "update_write"
  /\ LET data == updatedData(req[p].data, loc[p])
     IN /\ rows' = update(rows, req[p].id, data)
        /\ IF PrismaUpdateError(rows, req[p].id, data) = "none"
           THEN Finish(p, Returned(200, "product"))
           ELSE Finish(p, Thrown("Error"))
  /\ UNCHANGED nextId

\* productController.getById up to the await of getProductById
controller_getById(p, id) ==
  /\ Idle(p)
  /\ Goto(p, "get_findById",
          [NoReq EXCEPT !.op = "getProductById", !.id = id], NoRow)
  /\ UNCHANGED <<rows, nextId>>

\* getProductById: findById, a missing product throws
getProductById(p) ==
  /\ pc[p] = "get_findById"
  /\ IF ~findById(rows, req[p].id).exists
     THEN Finish(p, Thrown("Error"))
     ELSE Finish(p, [Returned(200, "product") EXCEPT
                       !.product =
                         toProductResponse(findById(rows, req[p].id))])
  /\ UNCHANGED <<rows, nextId>>

\* the page and limit a list request may carry (page 0 is invalid)
QueryParams ==
  [page : Opt(0..MaxPage), limit : Opt(1..MaxLimit), minPrice : {None},
   maxPrice : {None}, search : {None}]

\* list requests that carry a price range
PriceQueryParams ==
  [page : {None}, limit : {None}, minPrice : Opt(1..MaxPrice),
   maxPrice : Opt(1..MaxPrice), search : {None}]

\* the terms a search may carry
SearchTerms == {"S", "N", "D", "C", "1", "2", "x"}

\* list requests that carry a search term
SearchQueryParams ==
  [page : {None}, limit : {None}, minPrice : {None}, maxPrice : {None},
   search : Opt(SearchTerms)]

\* productQuerySchema.parse: page defaults to 1, limit to 10; minPrice and
\* maxPrice are optional positive numbers, not compared with each other;
\* search is an optional string
productQuerySchema(query) ==
  [page |-> IF query.page = None THEN 1 ELSE The(query.page),
   limit |-> IF query.limit = None THEN 10 ELSE The(query.limit),
   minPrice |-> query.minPrice,
   maxPrice |-> query.maxPrice,
   search |-> query.search]

\* page: z.coerce.number().int().min(1)
QueryRejects(query) == query.page # None /\ The(query.page) < 1

\* productController.getAll up to the count query of findAll
controller_getAll(p, query) ==
  /\ Idle(p)
  /\ IF QueryRejects(query)
     THEN Finish(p, Thrown("ZodError"))
     ELSE Goto(p, "list_count",
               [NoReq EXCEPT !.op = "getAllProducts",
                             !.page = productQuerySchema(query).page,
                             !.limit = productQuerySchema(query).limit,
                             !.minPrice = productQuerySchema(query).minPrice,
                             !.maxPrice = productQuerySchema(query).maxPrice,
                             !.search = productQuerySchema(query).search],
               NoRow)
  /\ UNCHANGED <<rows, nextId>>

\* the where clause of findAll without filters: { inStock: true }
where(db) == {i \in Ids : db[i].exists /\ db[i].inStock}

\* where.price of findAll: gte minPrice and lte maxPrice, each when supplied
wherePrice(S, db, minPrice, maxPrice) ==
  {i \in S : /\ minPrice = None \/ Number(db[i].price) >= The(minPrice)
             /\ maxPrice = None \/ Number(db[i].price) <= The(maxPrice)}

\* the characters of the texts the model stores and searches for
Chars ==
  [text \in {"s1", "s2", "n1", "n2", "d1", "c1", "c2", "none"}
             \cup SearchTerms |->
     CASE text = "s1" -> <<"s", "1">>
       [] text = "s2" -> <<"s", "2">>
       [] text = "n1" -> <<"n", "1">>
       [] text = "n2" -> <<"n", "2">>
       [] text = "d1" -> <<"d", "1">>
       [] text = "c1" -> <<"c", "1">>
       [] text = "c2" -> <<"c", "2">>
       [] text = "none" -> <<"n", "o", "n", "e">>
       [] OTHER -> <<text>>]

\* the lower-case form of a character
toLowerCase(c) ==
  CASE c = "S" -> "s"
    [] c = "N" -> "n"
    [] c = "D" -> "d"
    [] c = "C" -> "c"
    [] OTHER -> c

\* { contains: term, mode: "insensitive" } on a column value (None is null)
contains(value, term) ==
  /\ value # None
  /\ LET v == Chars[The(value)]
         t == Chars[term]
     IN \E k \in 0..(Len(v) - Len(t)) :
          \A j \in 1..Len(t) : toLowerCase(v[k + j]) = toLowerCase(t[j])

\* where.OR of findAll: name or description contains the search term
whereSearch(S, db, search) ==
  IF search = None THEN S
  ELSE {i \in S : \/ contains(Some(db[i].name), The(search))
                  \/ contains(db[i].description, The(search))}

\* the products that satisfy the where clause findAll builds from the query
whereOf(db, query) ==
  whereSearch(wherePrice(where(db), db, query.minPrice, query.maxPrice),
              db, query.search)

\* findAll: prisma.product.count({ where })
findAll_count(p) ==
  /\ pc[p] = "list_count"
  /\ Goto(p, "list_findMany",
          [req[p] EXCEPT !.total = Cardinality(whereOf(rows, req[p]))], NoRow)
  /\ UNCHANGED <<rows, nextId>>

\* orderBy: { createdAt: "desc" }: ids are handed out in creation order
RECURSIVE orderBy(_)
orderBy(S) ==
  IF S = {} THEN <<>>
  ELSE LET newest == CHOOSE i \in S : \A j \in S : j <= i
       IN <<newest>> \o orderBy(S \ {newest})

\* prisma.product.findMany({ where, skip, take })
findMany(db, query, skip, take) ==
  LET all == orderBy(whereOf(db, query))
      last == IF skip + take < Len(all) THEN skip + take ELSE Len(all)
  IN IF skip >= Len(all) THEN <<>> ELSE SubSeq(all, skip + 1, last)

\* Math.ceil(total / limit)
ceil(total, limit) == (total + limit - 1) \div limit

\* query.limit || 10 and query.page || 1
OrDefault(v, d) == IF v = 0 THEN d ELSE v

\* findAll: the fetch; getAllProducts: totalPages and page; getAll: the
\* pagination object { page, limit, total, totalPages } of the response
findAll_findMany(p) ==
  /\ pc[p] = "list_findMany"
  /\ LET skip == (req[p].page - 1) * req[p].limit
         products == findMany(rows, req[p], skip, req[p].limit)
         totalPages == ceil(req[p].total, OrDefault(req[p].limit, 10))
     IN Finish(p, [Returned(200, "products") EXCEPT
                     !.list = [NoList EXCEPT
                                 !.data = products,
                                 !.page = Some(OrDefault(req[p].page, 1)),
                                 !.limit = Some(req[p].limit),
                                 !.total = Some(req[p].total),
                                 !.totalPages = Some(totalPages)]])
  /\ UNCHANGED <<rows, nextId>>

\* productController.getLowStock: the threshold of the query, else 10
controller_getLowStock(p, threshold) ==
  /\ Idle(p)
  /\ Goto(p, "lowStock_findMany",
          [NoReq EXCEPT !.op = "getLowStockProducts",
                        !.threshold = IF threshold = None THEN 10
                                      ELSE The(threshold)], NoRow)
  /\ UNCHANGED <<rows, nextId>>

\* the where clause of findLowStock: { quantity: { lte: threshold }, inStock: true }
whereLowStock(db, threshold) ==
  {i \in Ids : db[i].exists /\ db[i].quantity <= threshold /\ db[i].inStock}

\* orderBy: { quantity: "asc" }: every order of S by ascending quantity; the
\* order of products of equal quantity is the store's choice
orderByQuantity(S, db) ==
  {f \in [1..Cardinality(S) -> S] :
     /\ \A a, b \in 1..Cardinality(S) : a # b => f[a] # f[b]
     /\ \A a, b \in 1..Cardinality(S) :
          a < b => db[f[a]].quantity <= db[f[b]].quantity}

\* findLowStock and the response { success, data } of getLowStock
findLowStock(p) ==
  /\ pc[p] = "lowStock_findMany"
  /\ \E products \in orderByQuantity(whereLowStock(rows, req[p].threshold), rows) :
       Finish(p, [Returned(200, "products") EXCEPT
                    !.list = [NoList EXCEPT !.data = products]])
  /\ UNCHANGED <<rows, nextId>>

\* ------------------------------------------------------------------------
\* Older service (services/product.service.ts with Prisma calls inline)
\* behind controllers/product.controller.ts
\* ------------------------------------------------------------------------
\* validateCreateProduct / validateUpdateProduct on the quantity field
validateQuantityFails(body) == body.quantity # None /\ The(body.quantity) < 0

\* createProduct up to prisma.product.create
legacy_createProduct_validate(p, body) ==
  /\ Idle(p)
  /\ nextId + InFlightCreates <= MaxIds
  /\ IF validateQuantityFails(body)
     THEN Finish(p, LegacyThrown("ValidationError"))
     ELSE Goto(p, "legacy_create",
               [NoReq EXCEPT !.op = "legacy_createProduct", !.data = body], NoRow)
  /\ UNCHANGED <<rows, nextId>>

\* the data object of createProduct: inStock ?? true, quantity ?? 0
legacyCreateData(body) ==
  [body EXCEPT !.inStock = IF body.inStock = None THEN Some(TRUE) ELSE @,
               !.quantity = IF body.quantity = None THEN Some(0) ELSE @]

\* createProduct: prisma.product.create, P2002 on sku becomes DuplicateSKUError
legacy_createProduct_create(p) ==
  /\ pc[p] = "legacy_create"
  /\ IF UniqueViolation(rows, nextId, The(req[p].data.sku))
     THEN /\ Finish(p, LegacyThrown("DuplicateSKUError"))
          /\ UNCHANGED <<rows, nextId>>
     ELSE /\ rows' = [rows EXCEPT ![nextId] =
                         NewRow(nextId, legacyCreateData(req[p].data))]
          /\ nextId' = nextId + 1
          /\ Finish(p, Returned(201, "product"))

\* updateProduct up to getProductById
legacy_updateProduct_validate(p, id, body) ==
  /\ Idle(p)
  /\ IF validateQuantityFails(body)
     THEN Finish(p, LegacyThrown("ValidationError"))
     ELSE Goto(p, "legacy_update_get",
               [NoReq EXCEPT !.op = "legacy_updateProduct", !.id = id,
                             !.data = body], NoRow)
  /\ UNCHANGED <<rows, nextId>>

\* updateProduct: getProductById
legacy_updateProduct_get(p) ==
  /\ pc[p] = "legacy_update_get"
  /\ IF ~findById(rows, req[p].id).exists
     THEN Finish(p, LegacyThrown("ProductNotFoundError"))
     ELSE Goto(p, "legacy_update_write", req[p], NoRow)
  /\ UNCHANGED <<rows, nextId>>

\* the outcome of a prisma.product.update whose errors are rethrown
legacyUpdateOutcome(err) ==
  IF err = "none" THEN Returned(200, "product")
  ELSE IF err = "P2002" THEN LegacyThrown("DuplicateSKUError")
  ELSE LegacyThrown("PrismaClientKnownRequestError")

\* updateProduct: prisma.product.update with the caller's data as it is
legacy_updateProduct_update(p) ==
  /\ pc[p] = "legacy_update_write"
  /\ rows' = update(rows, req[p].id, req[p].data)
  /\ Finish(p, legacyUpdateOutcome(PrismaUpdateError(rows, req[p].id, req[p].data)))
  /\ UNCHANGED nextId

\* deleteProduct up to getProductById
legacy_deleteProduct_start(p, id) ==
  /\ Idle(p)
  /\ Goto(p, "legacy_delete_get",
          [NoReq EXCEPT !.op = "legacy_deleteProduct", !.id = id], NoRow)
  /\ UNCHANGED <<rows, nextId>>

\* deleteProduct: getProductById
legacy_deleteProduct_get(p) ==
  /\ pc[p] = "legacy_delete_get"
  /\ IF ~findById(rows, req[p].id).exists
     THEN Finish(p, LegacyThrown("ProductNotFoundError"))
     ELSE Goto(p, "legacy_delete_delete", req[p], NoRow)
  /\ UNCHANGED <<rows, nextId>>

\* deleteProduct: prisma.product.delete removes the row
legacy_deleteProduct_delete(p) ==
  /\ pc[p] = "legacy_delete_delete"
  /\ IF rows[req[p].id].exists
     THEN /\ rows' = [rows EXCEPT ![req[p].id] = NoRow]
          /\ Finish(p, Returned(204, "none"))
     ELSE /\ rows' = rows
          /\ Finish(p, LegacyThrown("PrismaClientKnownRequestError"))
  /\ UNCHANGED nextId

\* a switch whose default branch adds
newQuantityDefaultAdds(operation, current, quantity) ==
  IF operation = "subtract" THEN current - quantity
  ELSE current + quantity

\* the switch on stockUpdate.operation
newQuantity(operation, current, quantity) ==
  IF operation = "add" THEN current + quantity
  ELSE IF operation = "subtract" THEN current - quantity
  ELSE quantity

\* updateStock up to getProductById; the model keeps the stored count small
legacy_updateStock_validate(p, id, quantity, operation) ==
  /\ Idle(p)
  /\ newQuantity(operation, rows[id].quantity, quantity) <= MaxQty
  /\ Goto(p, "legacy_stock_get",
          [NoReq EXCEPT !.op = "legacy_updateStock", !.id = id,
                        !.quantity = quantity, !.operation = operation], NoRow)
  /\ UNCHANGED <<rows, nextId>>

\* updateStock: getProductById, the switch and the negative-result check
legacy_updateStock_get(p) ==
  /\ pc[p] = "legacy_stock_get"
  /\ LET existingProduct == findById(rows, req[p].id)
     IN IF ~existingProduct.exists
        THEN Finish(p, LegacyThrown("ProductNotFoundError"))
        ELSE IF newQuantity(req[p].operation, existingProduct.quantity,
                            req[p].quantity) < 0
        THEN Finish(p, LegacyThrown("ValidationError"))
        ELSE Goto(p, "legacy_stock_write", req[p], existingProduct)
  /\ UNCHANGED <<rows, nextId>>

\* updateStock: prisma.product.update of quantity and inStock
legacy_updateStock_update(p) ==
  /\ pc[p] = "legacy_stock_write"
  /\ LET nq == newQuantity(req[p].operation, loc[p].quantity, req[p].quantity)
         data == [NoData EXCEPT !.quantity = Some(nq), !.inStock = Some(nq > 0)]
     IN /\ rows' = update(rows, req[p].id, data)
        /\ Finish(p, legacyUpdateOutcome(PrismaUpdateError(rows, req[p].id, data)))
  /\ UNCHANGED nextId

\* getProductById of the older controller up to the service call
legacy_getProductById_start(p, id) ==
  /\ Idle(p)
  /\ Goto(p, "legacy_get",
          [NoReq EXCEPT !.op = "legacy_getProductById", !.id = id], NoRow)
  /\ UNCHANGED <<rows, nextId>>

\* getProductById: findUnique, a missing product throws ProductNotFoundError
legacy_getProductById(p) ==
  /\ pc[p] = "legacy_get"
  /\ IF ~findById(rows, req[p].id).exists
     THEN Finish(p, LegacyThrown("ProductNotFoundError"))
     ELSE Finish(p, Returned(200, "product"))
  /\ UNCHANGED <<rows, nextId>>

\* searchProducts of the older controller up to the service call: a missing
\* q is answered 400 without a throw
legacy_searchProducts_start(p, q) ==
  /\ Idle(p)
  /\ IF q = None
     THEN Finish(p, [NoRes EXCEPT !.kind = "refused", !.status = 400])
     ELSE Goto(p, "legacy_search",
               [NoReq EXCEPT !.op = "legacy_searchProducts", !.search = q], NoRow)
  /\ UNCHANGED <<rows, nextId>>

\* the where clause of searchProducts: name, description, sku or category
\* contains the term
whereSearchProducts(db, searchTerm) ==
  {i \in Ids : /\ db[i].exists
               /\ \/ contains(Some(db[i].name), searchTerm)
                  \/ contains(db[i].description, searchTerm)
                  \/ contains(Some(db[i].sku), searchTerm)
                  \/ contains(Some(db[i].category), searchTerm)}

\* searchProducts: findMany ordered by createdAt desc
legacy_searchProducts(p) ==
  /\ pc[p] = "legacy_search"
  /\ Finish(p, [Returned(200, "products") EXCEPT
                  !.list.data =
                    orderBy(whereSearchProducts(rows, The(req[p].search)))])
  /\ UNCHANGED <<rows, nextId>>

\* ------------------------------------------------------------------------
\* Every operation of both surfaces, requests handled one at a time
\* ------------------------------------------------------------------------
Steps(p) ==
  \/ createProduct_findBySku(p)
  \/ create(p)
  \/ reserveProductStock_check(p)
  \/ reserveProductStock_updateStock(p)
  \/ updateProductStock_findById(p)
  \/ updateProductStock_update(p)
  \/ deleteProduct_findById(p)
  \/ deleteProduct_delete(p)
  \/ updateProduct_findById(p)
  \/ updateProduct_findBySku(p)
  \/ updateProduct_update(p)
  \/ legacy_createProduct_create(p)
  \/ legacy_updateProduct_get(p)
  \/ legacy_updateProduct_update(p)
  \/ legacy_deleteProduct_get(p)
  \/ legacy_deleteProduct_delete(p)
  \/ legacy_updateStock_get(p)
  \/ legacy_updateStock_update(p)
  \/ getProductById(p)
  \/ findAll_count(p)
  \/ findAll_findMany(p)
  \/ legacy_getProductById(p)

Next ==
  \/ \E body \in CreateBodies : controller_create(1, body)
  \/ \E id \in Ids, q \in QtyInputs : controller_reserveStock(1, id, q)
  \/ \E id \in Ids, q \in QtyInputs, o \in Operations :
       controller_updateStock(1, id, q, o)
  \/ \E id \in Ids : controller_delete(1, id)
  \/ \E id \in Ids, body \in UpdateBodies : controller_update(1, id, body)
  \/ \E body \in CreateBodies : legacy_createProduct_validate(1, body)
  \/ \E id \in Ids, body \in UpdateBodies :
       legacy_updateProduct_validate(1, id, body)
  \/ \E id \in Ids : legacy_deleteProduct_start(1, id)
  \/ \E id \in Ids, q \in QtyInputs, o \in Operations :
       legacy_updateStock_validate(1, id, q, o)
  \/ \E id \in Ids : controller_getById(1, id)
  \/ \E query \in QueryParams : controller_getAll(1, query)
  \/ \E id \in Ids : legacy_getProductById_start(1, id)
  \/ Steps(1)

Spec == Init /\ [][Next]_vars

\* ------------------------------------------------------------------------
\* Concurrent requests that create, rename (sku) and delete products
\* ------------------------------------------------------------------------
CatalogCreateBodies ==
  [sku : {Some(s) : s \in Skus}, name : {Some("n1")}, description : {None},
   category : {Some("c1")}, price : {Some(1)},
   quantity : {None, Some(1)}, inStock : {None}]

CatalogUpdateBodies ==
  [sku : {Some(s) : s \in Skus}, name : {None}, description : {None},
   category : {None}, price : {None}, quantity : {None}, inStock : {None}]

NextCatalog ==
  \E p \in Procs :
    \/ \E body \in CatalogCreateBodies : controller_create(p, body)
    \/ createProduct_findBySku(p)
    \/ create(p)
    \/ \E id \in Ids, body \in CatalogUpdateBodies : controller_update(p, id, body)
    \/ updateProduct_findById(p)
    \/ updateProduct_findBySku(p)
    \/ updateProduct_update(p)
    \/ \E id \in Ids : controller_delete(p, id)
    \/ deleteProduct_findById(p)
    \/ deleteProduct_delete(p)
    \/ \E body \in CatalogCreateBodies : legacy_createProduct_validate(p, body)
    \/ legacy_createProduct_create(p)
    \/ \E id \in Ids, body \in CatalogUpdateBodies :
         legacy_updateProduct_validate(p, id, body)
    \/ legacy_updateProduct_get(p)
    \/ legacy_updateProduct_update(p)
    \/ \E id \in Ids : legacy_deleteProduct_start(p, id)
    \/ legacy_deleteProduct_get(p)
    \/ legacy_deleteProduct_delete(p)

SpecCatalog == Init /\ [][NextCatalog]_vars

\* ------------------------------------------------------------------------
\* Concurrent stock requests: every client makes one call on product 1,
\* which was created with the given quantity
\* ------------------------------------------------------------------------
RaceCalls ==
  [op : {"reserveProductStock"}, quantity : 1..MaxQty, operation : {"set"}]
  \cup [op : {"updateProductStock", "legacy_updateStock"},
        quantity : QtyInputs, operation : Operations]

\* the table that holds product 1 alone, created with the quantity
Stocked(quantity) ==
  [i \in Ids |->
     IF i = 1
     THEN [exists |-> TRUE, id |-> 1, sku |-> "s1", name |-> "n1",
           description |-> None, category |-> "c1",
           price |-> Decimal(1),
           quantity |-> quantity,
           inStock |-> quantity > 0]
     ELSE NoRow]

InitStockRace ==
  /\ given \in [quantity : 0..MaxQty, calls : [Procs -> RaceCalls]]
  /\ rows = Stocked(given.quantity)
  /\ nextId = 2
  /\ pc = [p \in Procs |-> "idle"]
  /\ req = [p \in Procs |-> NoReq]
  /\ loc = [p \in Procs |-> NoRow]
  /\ res = [p \in Procs |-> NoRes]
  /\ deleted = {}

\* client p has not made its call yet
NotCalled(p) == Idle(p) /\ res[p] = NoRes

race_reserveStock(p) ==
  /\ NotCalled(p)
  /\ given.calls[p].op = "reserveProductStock"
  /\ controller_reserveStock(p, 1, given.calls[p].quantity)

race_updateStock(p) ==
  /\ NotCalled(p)
  /\ given.calls[p].op = "updateProductStock"
  /\ controller_updateStock(p, 1, given.calls[p].quantity, given.calls[p].operation)

race_legacy_updateStock(p) ==
  /\ NotCalled(p)
  /\ given.calls[p].op = "legacy_updateStock"
  /\ legacy_updateStock_validate(p, 1, given.calls[p].quantity,
                                 given.calls[p].operation)

NextStockRace ==
  \E p \in Procs :
    \/ race_reserveStock(p)
    \/ reserveProductStock_check(p)
    \/ reserveProductStock_updateStock(p)
    \/ race_updateStock(p)
    \/ updateProductStock_findById(p)
    \/ updateProductStock_update(p)
    \/ race_legacy_updateStock(p)
    \/ legacy_updateStock_get(p)
    \/ legacy_updateStock_update(p)

SpecStockRace == InitStockRace /\ [][NextStockRace]_vars

\* ------------------------------------------------------------------------
\* Concurrent reservations only: every client reserves once on product 1
\* ------------------------------------------------------------------------
ReserveCalls ==
  [op : {"reserveProductStock"}, quantity : 1..MaxQty, operation : {"set"}]

InitReserve ==
  /\ InitStockRace
  /\ \A p \in Procs : given.calls[p] \in ReserveCalls

NextReserve ==
  \E p \in Procs :
    \/ race_reserveStock(p)
    \/ reserveProductStock_check(p)
    \/ reserveProductStock_updateStock(p)

SpecReserve == InitReserve /\ [][NextReserve]_vars

\* ------------------------------------------------------------------------
\* Updates of product 1 through both surfaces by one client, each with at
\* most one member in its partial, while the other clients set its stock
\* ------------------------------------------------------------------------
PartialBodies ==
  {NoData}
  \cup {[NoData EXCEPT !.sku = Some(sku)] : sku \in Skus}
  \cup {[NoData EXCEPT !.name = Some("n2")],
        [NoData EXCEPT !.description = Some("d1")],
        [NoData EXCEPT !.category = Some("c2")],
        [NoData EXCEPT !.price = Some(MaxPrice)]}
  \cup {[NoData EXCEPT !.quantity = Some(quantity)] : quantity \in 0..MaxQty}
  \cup {[NoData EXCEPT !.inStock = Some(inStock)] : inStock \in BOOLEAN}

InitUpdate ==
  /\ given \in {[NoGiven EXCEPT !.quantity = quantity] : quantity \in 0..MaxQty}
  /\ rows = Stocked(given.quantity)
  /\ nextId = 2
  /\ pc = [p \in Procs |-> "idle"]
  /\ req = [p \in Procs |-> NoReq]
  /\ loc = [p \in Procs |-> NoRow]
  /\ res = [p \in Procs |-> NoRes]
  /\ deleted = {}

NextUpdate ==
  \/ \E body \in PartialBodies : controller_update(1, 1, body)
  \/ updateProduct_findById(1)
  \/ updateProduct_findBySku(1)
  \/ updateProduct_update(1)
  \/ \E body \in PartialBodies : legacy_updateProduct_validate(1, 1, body)
  \/ legacy_updateProduct_get(1)
  \/ legacy_updateProduct_update(1)
  \/ \E p \in Procs \ {1} :
       \/ \E quantity \in 0..MaxQty : controller_updateStock(p, 1, quantity, "set")
       \/ updateProductStock_findById(p)
       \/ updateProductStock_update(p)

SpecUpdate == InitUpdate /\ [][NextUpdate]_vars

\* ------------------------------------------------------------------------
\* List requests of one client while the other clients create, delete and
\* restock products
\* ------------------------------------------------------------------------
NextList ==
  \/ \E query \in QueryParams : controller_getAll(1, query)
  \/ findAll_count(1)
  \/ findAll_findMany(1)
  \/ \E p \in Procs \ {1} :
       \/ \E body \in CatalogCreateBodies : controller_create(p, body)
       \/ createProduct_findBySku(p)
       \/ create(p)
       \/ \E id \in Ids : controller_delete(p, id)
       \/ deleteProduct_findById(p)
       \/ deleteProduct_delete(p)
       \/ \E id \in Ids, q \in 0..MaxQty : controller_updateStock(p, id, q, "set")
       \/ updateProductStock_findById(p)
       \/ updateProductStock_update(p)

SpecList == Init /\ [][NextList]_vars

\* ------------------------------------------------------------------------
\* Filtered reads of a catalog that is created and deleted from, requests
\* handled one at a time
\* ------------------------------------------------------------------------
NextQuery ==
  \/ \E body \in CreateBodies : controller_create(1, body)
  \/ createProduct_findBySku(1)
  \/ create(1)
  \/ \E body \in CreateBodies : legacy_createProduct_validate(1, body)
  \/ legacy_createProduct_create(1)
  \/ \E id \in Ids : controller_delete(1, id)
  \/ deleteProduct_findById(1)
  \/ deleteProduct_delete(1)
  \/ \E query \in PriceQueryParams : controller_getAll(1, query)
  \/ findAll_count(1)
  \/ findAll_findMany(1)
  \/ \E threshold \in Opt(0..MaxQty) : controller_getLowStock(1, threshold)
  \/ findLowStock(1)

SpecQuery == Init /\ [][NextQuery]_vars

\* ------------------------------------------------------------------------
\* One client creates a product on the empty table, every other client reads
\* one product by id, once
\* ------------------------------------------------------------------------
once_create(p, body) == NotCalled(p) /\ controller_create(p, body)

once_getById(p, id) == NotCalled(p) /\ controller_getById(p, id)

NextCreateGet ==
  \/ \E body \in CreateBodies : once_create(1, body)
  \/ createProduct_findBySku(1)
  \/ create(1)
  \/ \E p \in Procs \ {1} :
       \/ \E id \in Ids : once_getById(p, id)
       \/ getProductById(p)

SpecCreateGet == Init /\ [][NextCreateGet]_vars

\* ------------------------------------------------------------------------
\* The same stock update with operation set, made by every client in turn on
\* product 1: a client calls once every client before it has been answered
\* ------------------------------------------------------------------------
SetCalls ==
  [op : {"updateProductStock", "legacy_updateStock"},
   quantity : 0..MaxQty, operation : {"set"}]

InitSetTwice ==
  /\ InitStockRace
  /\ \A p \in Procs : given.calls[p] \in SetCalls /\ given.calls[p] = given.calls[1]

\* every client before p has been answered with success
InSuccession(p) ==
  \A q \in Procs : q < p => (pc[q] = "idle" /\ res[q].kind = "ok")

succ_updateStock(p) == InSuccession(p) /\ race_updateStock(p)

succ_legacy_updateStock(p) == InSuccession(p) /\ race_legacy_updateStock(p)

NextSetTwice ==
  \E p \in Procs :
    \/ succ_updateStock(p)
    \/ updateProductStock_findById(p)
    \/ updateProductStock_update(p)
    \/ succ_legacy_updateStock(p)
    \/ legacy_updateStock_get(p)
    \/ legacy_updateStock_update(p)

SpecSetTwice == InitSetTwice /\ [][NextSetTwice]_vars

\* ------------------------------------------------------------------------
\* The writes of the functional service while the other clients remove
\* products through the older controller or productRepository.hardDelete
\* ------------------------------------------------------------------------
NextGone ==
  \/ \E body \in CatalogCreateBodies : controller_create(1, body)
  \/ createProduct_findBySku(1)
  \/ create(1)
  \/ \E id \in Ids, body \in CatalogUpdateBodies : controller_update(1, id, body)
  \/ updateProduct_findById(1)
  \/ updateProduct_findBySku(1)
  \/ updateProduct_update(1)
  \/ \E id \in Ids, quantity \in 0..MaxQty :
       controller_updateStock(1, id, quantity, "set")
  \/ updateProductStock_findById(1)
  \/ updateProductStock_update(1)
  \/ \E id \in Ids, quantity \in 1..MaxQty : controller_reserveStock(1, id, quantity)
  \/ reserveProductStock_check(1)
  \/ reserveProductStock_updateStock(1)
  \/ \E id \in Ids : controller_delete(1, id)
  \/ deleteProduct_findById(1)
  \/ deleteProduct_delete(1)
  \/ \E p \in Procs \ {1} :
       \/ \E id \in Ids : legacy_deleteProduct_start(p, id)
       \/ legacy_deleteProduct_get(p)
       \/ legacy_deleteProduct_delete(p)
       \/ \E id \in Ids : hardDelete_call(p, id)
       \/ hardDelete_delete(p)

SpecGone == Init /\ [][NextGone]_vars

\* ------------------------------------------------------------------------
\* Searches and filtered list requests over products created with or without
\* a description, requests handled one at a time
\* ------------------------------------------------------------------------
SearchCreateBodies ==
  [sku : {Some(s) : s \in Skus}, name : {Some("n1")},
   description : Opt({"d1"}), category : {Some("c1")}, price : {Some(1)},
   quantity : {Some(1)}, inStock : {None}]

NextSearch ==
  \/ \E body \in SearchCreateBodies : controller_create(1, body)
  \/ createProduct_findBySku(1)
  \/ create(1)
  \/ \E q \in Opt(SearchTerms) : legacy_searchProducts_start(1, q)
  \/ legacy_searchProducts(1)
  \/ \E query \in SearchQueryParams : controller_getAll(1, query)
  \/ findAll_count(1)
  \/ findAll_findMany(1)

SpecSearch == Init /\ [][NextSearch]_vars

\* ------------------------------------------------------------------------
\* Updates without a quantity by one client while the other clients set and
\* reserve stock
\* ------------------------------------------------------------------------
NoQuantityBodies ==
  [sku : Opt(Skus), name : {Some("n2")}, description : {None}, category : {None},
   price : {None}, quantity : {None}, inStock : {None}]

NextStale ==
  \/ \E body \in CatalogCreateBodies : controller_create(1, body)
  \/ createProduct_findBySku(1)
  \/ create(1)
  \/ \E id \in Ids, body \in NoQuantityBodies : controller_update(1, id, body)
  \/ updateProduct_findById(1)
  \/ updateProduct_findBySku(1)
  \/ updateProduct_update(1)
  \/ \E p \in Procs \ {1} :
       \/ \E id \in Ids, quantity \in 0..MaxQty :
            controller_updateStock(p, id, quantity, "set")
       \/ updateProductStock_findById(p)
       \/ updateProductStock_update(p)
       \/ \E id \in Ids, quantity \in 1..MaxQty :
            controller_reserveStock(p, id, quantity)
       \/ reserveProductStock_check(p)
       \/ reserveProductStock_updateStock(p)

SpecStale == Init /\ [][NextStale]_vars

\* ------------------------------------------------------------------------
\* Reservations of one client on ids that were never created, are stored or
\* were removed by the other clients through the older controller
\* ------------------------------------------------------------------------
NextReserveGone ==
  \/ \E body \in CatalogCreateBodies : controller_create(1, body)
  \/ createProduct_findBySku(1)
  \/ create(1)
  \/ \E id \in Ids, quantity \in 1..MaxQty : controller_reserveStock(1, id, quantity)
  \/ reserveProductStock_check(1)
  \/ reserveProductStock_updateStock(1)
  \/ \E p \in Procs \ {1} :
       \/ \E id \in Ids : legacy_deleteProduct_start(p, id)
       \/ legacy_deleteProduct_get(p)
       \/ legacy_deleteProduct_delete(p)

SpecReserveGone == Init /\ [][NextReserveGone]_vars

\* ------------------------------------------------------------------------
\* Properties
\* ------------------------------------------------------------------------
\* every client of a scenario has made its call and got its answer
AllCalled == \A p \in Procs : pc[p] = "idle" /\ res[p] # NoRes

ReserveOneEach ==
  \A p \in Procs :
    given.calls[p] =
      [op |-> "reserveProductStock", quantity |-> 1, operation |-> "set"]

Successes == Cardinality({p \in Procs : res[p].ret = "true"})
Refusals == Cardinality({p \in Procs : res[p].ret = "false"})

\* C1: when N clients each reserve one unit of a product holding K < N
\* units, exactly K of them are answered true, N - K are answered false and
\* the product ends with quantity 0, whatever the interleaving.
C1_ExactlyKReservationsSucceed ==
  (ReserveOneEach /\ given.quantity < NumProcs /\ AllCalled)
    => /\ Successes = given.quantity
       /\ Refusals = NumProcs - given.quantity
       /\ rows[1].quantity = 0

\* C2: every stored product has inStock = (quantity > 0).
C2_InStockIsDerived ==
  \A i \in Ids : rows[i].exists => (rows[i].inStock = (rows[i].quantity > 0))

\* C3: the stored quantity of every product is never negative.
C3_QuantityNonNegative ==
  \A i \in Ids : rows[i].exists => rows[i].quantity >= 0

\* C4: two distinct stored products never have the same sku.
C4_SkuUnique ==
  \A i, j \in Ids :
    (i # j /\ rows[i].exists /\ rows[j].exists) => rows[i].sku # rows[j].sku

\* C4 witness: two products are stored and the unique index has refused a
\* write of a request that had passed the service's own sku check.
C4_Witness ==
  /\ \E i, j \in Ids : i # j /\ rows[i].exists /\ rows[j].exists
  /\ \E p \in Procs : res[p].kind = "PrismaClientKnownRequestError"

IsAdjust(c) ==
  /\ c.op = "legacy_updateStock"
  /\ c.operation \in {"add", "subtract"}
  /\ c.quantity >= 0

Delta(c) == IF c.operation = "add" THEN c.quantity ELSE 0 - c.quantity

RECURSIVE SumDelta(_)
SumDelta(P) ==
  IF P = {} THEN 0
  ELSE LET p == CHOOSE x \in P : TRUE
       IN Delta(given.calls[p]) + SumDelta(P \ {p})

\* C5: when concurrent add / subtract stock updates of one product all
\* succeed, the final quantity is the initial one plus every delta: no
\* update is lost.
C5_NoLostStockUpdate ==
  (/\ \A p \in Procs : IsAdjust(given.calls[p])
   /\ AllCalled
   /\ \A p \in Procs : res[p].kind = "ok")
    => rows[1].quantity = given.quantity + SumDelta(Procs)

\* C6: a successful SetStock stores newQuantity computed from the operation
\* named in the request and the quantity c the call read (n for set, c + n
\* for add, c - n for subtract), with inStock = (newQuantity > 0).
C6_SetStockAppliesOperation ==
  [][\A p \in Procs :
       (/\ pc[p] \in {"stock_update", "legacy_stock_write"}
        /\ pc'[p] = "idle"
        /\ res'[p].kind = "ok")
         => LET nq == newQuantity(req[p].operation, loc[p].quantity,
                                  req[p].quantity)
            IN /\ rows'[req[p].id].quantity = nq
               /\ rows'[req[p].id].inStock = (nq > 0)]_vars

\* C7: a SetStock whose resulting quantity would be negative fails with a
\* validation error and leaves the table as it was.
C7_NegativeResultRejected ==
  [][\A p \in Procs :
       (/\ pc[p] \in {"stock_findById", "legacy_stock_get"}
        /\ pc'[p] # pc[p]
        /\ rows[req[p].id].exists
        /\ newQuantity(req[p].operation, rows[req[p].id].quantity,
                       req[p].quantity) < 0)
         => /\ pc'[p] = "idle"
            /\ res'[p].kind = "ValidationError"
            /\ res'[p].status = 400
            /\ rows' = rows]_vars

\* C8: a ReserveStock that finds less stock than it asks for on an existing
\* product returns false without throwing, ends without a write and leaves
\* the table as it was.
C8_InsufficientReserveReturnsFalse ==
  [][\A p \in Procs :
       (/\ pc[p] = "reserve_check"
        /\ pc'[p] # pc[p]
        /\ rows[req[p].id].exists
        /\ rows[req[p].id].quantity < req[p].quantity)
         => /\ pc'[p] = "idle"
            /\ res'[p].kind = "ok"
            /\ res'[p].ret = "false"
            /\ rows' = rows]_vars

\* C8 witness: a client that asked for more than the stock of product 1 was
\* answered false and the product still holds its positive initial quantity.
C8_Witness ==
  \E p \in Procs :
    /\ res[p].ret = "false"
    /\ given.quantity > 0
    /\ given.calls[p].quantity > given.quantity
    /\ rows[1].quantity = given.quantity
    /\ rows[1].inStock

\* C9: the write of a ReserveStock of q units on a product holding c units
\* returns true and leaves quantity c - q and inStock = (c - q > 0).
C9_ReserveActsAsSubtract ==
  [][\A p \in Procs :
       (pc[p] = "reserve_updateStock" /\ pc'[p] = "idle"
        /\ rows[req[p].id].exists)
         => LET c == rows[req[p].id].quantity
                q == req[p].quantity
            IN /\ res'[p].ret = "true"
               /\ rows'[req[p].id].quantity = c - q
               /\ rows'[req[p].id].inStock = (c - q > 0)]_vars

\* C10: a Create whose sku is already stored fails with a conflict, answered
\* 409, and leaves the table as it was.
C10_DuplicateSkuIsConflict ==
  [][\A p \in Procs :
       (/\ pc[p] \in {"create_findBySku", "legacy_create"}
        /\ pc'[p] # pc[p]
        /\ findBySku(rows, The(req[p].data.sku)).exists)
         => /\ pc'[p] = "idle"
            /\ res'[p].status = 409
            /\ rows' = rows]_vars

\* C11: a Create whose insert is refused by the unique index, because another
\* request stored the same sku after both had passed the find-by-sku check,
\* is answered as a conflict (409) like a sequential duplicate, and adds no
\* row.
C11_RaceLoserIsConflict ==
  [][\A p \in Procs :
       (/\ pc[p] \in {"create_insert", "legacy_create"}
        /\ pc'[p] # pc[p]
        /\ UniqueViolation(rows, nextId, The(req[p].data.sku)))
         => /\ pc'[p] = "idle"
            /\ res'[p].status = 409
            /\ rows' = rows]_vars

\* C12: a successful Create stores the quantity the service was given (0 when
\* none) and inStock = (quantity > 0), whatever inStock the caller or the
\* validation schema supplied: productData is built that way and the stored
\* row has those two values.
C12_CreateDerivesStock ==
  [][\A p \in Procs :
       LET q == IF req[p].data.quantity = None THEN 0
                ELSE The(req[p].data.quantity)
       IN /\ (pc[p] = "create_findBySku" /\ pc'[p] = "create_insert")
               => /\ req'[p].data.quantity = Some(q)
                  /\ req'[p].data.inStock = Some(q > 0)
          /\ (/\ pc[p] \in {"create_insert", "legacy_create"}
              /\ pc'[p] = "idle"
              /\ res'[p].kind = "ok")
               => /\ rows'[nextId].exists
                  /\ rows'[nextId].quantity = q
                  /\ rows'[nextId].inStock = (q > 0)]_vars

\* C13: the write of a successful Update never takes inStock from the
\* caller: the stored inStock becomes (partial.quantity > 0) when the partial
\* carries a quantity and keeps its current value otherwise.
C13_UpdateIgnoresCallerInStock ==
  [][\A p \in Procs :
       (/\ pc[p] \in {"update_write", "legacy_update_write"}
        /\ pc'[p] = "idle"
        /\ res'[p].kind = "ok")
         => rows'[req[p].id].inStock =
              IF req[p].data.quantity # None
              THEN The(req[p].data.quantity) > 0
              ELSE rows[req[p].id].inStock]_vars

\* C14: the write of a successful Update stores every sku, name, description,
\* category, price and quantity present in the partial and leaves each of
\* them that is absent at the value stored just before the write; it leaves
\* inStock as it was when the partial carries no quantity; it never changes
\* the id and writes no other product.
C14_UpdateFrame ==
  [][\A p \in Procs :
       (/\ pc[p] \in {"update_write", "legacy_update_write"}
        /\ pc'[p] = "idle"
        /\ res'[p].kind = "ok")
         => LET data == req[p].data
                old == rows[req[p].id]
                new == rows'[req[p].id]
            IN /\ new.id = old.id
               /\ new.sku = IF data.sku = None THEN old.sku ELSE The(data.sku)
               /\ new.name = IF data.name = None THEN old.name ELSE The(data.name)
               /\ new.description = IF data.description = None
                                    THEN old.description ELSE data.description
               /\ new.category = IF data.category = None THEN old.category
                                 ELSE The(data.category)
               /\ new.price = IF data.price = None THEN old.price
                              ELSE Decimal(The(data.price))
               /\ new.quantity = IF data.quantity = None THEN old.quantity
                                 ELSE The(data.quantity)
               /\ data.quantity = None => new.inStock = old.inStock
               /\ \A i \in Ids \ {req[p].id} : rows'[i] = rows[i]]_vars

\* C15: an Update whose partial sku differs from the product's sku and is
\* the sku of another stored product fails with a conflict (409) and leaves
\* the table as it was, both when the service's uniqueness check sees the
\* other product and when the other product took the sku after that check
\* and the write is refused.
C15_UpdateDuplicateSkuIsConflict ==
  [][\A p \in Procs :
       (/\ pc[p] \in {"update_findBySku", "update_write", "legacy_update_write"}
        /\ pc'[p] # pc[p]
        /\ rows[req[p].id].exists
        /\ req[p].data.sku # None
        /\ The(req[p].data.sku) # rows[req[p].id].sku
        /\ UniqueViolation(rows, req[p].id, The(req[p].data.sku)))
         => /\ pc'[p] = "idle"
            /\ res'[p].status = 409
            /\ rows' = rows]_vars

\* C16: GetById, Update, Delete and SetStock on an id that matches no stored
\* product fail with a not-found error, answered 404, and leave the table as
\* it was.
C16_MissingIdIsNotFound ==
  [][\A p \in Procs :
       (/\ pc[p] \in {"get_findById", "update_findById", "delete_findById",
                      "stock_findById", "legacy_get", "legacy_update_get",
                      "legacy_delete_get", "legacy_stock_get"}
        /\ pc'[p] # pc[p]
        /\ ~rows[req[p].id].exists)
         => /\ pc'[p] = "idle"
            /\ res'[p].status = 404
            /\ rows' = rows]_vars

\* C17: once a Delete of an id has been answered as successful, the
\* existence check of every later Delete of that id ends the request with a
\* not-found error (404): it never goes on to delete again.
C17_SecondDeleteIsNotFound ==
  [][\A p \in Procs :
       (/\ pc[p] \in {"delete_findById", "legacy_delete_get"}
        /\ pc'[p] # pc[p]
        /\ req[p].id \in deleted)
         => /\ pc'[p] = "idle"
            /\ res'[p].status = 404]_vars

\* C18: once a Delete of a product has been answered as successful, no List
\* response produced afterwards contains that product, whatever requests
\* were handled in between.
C18_DeletedNeverListed ==
  [][\A p \in Procs :
       (pc[p] = "list_findMany" /\ pc'[p] = "idle")
         => \A k \in DOMAIN res'[p].list.data :
              res'[p].list.data[k] \notin deleted]_vars

\* a deleted product whose row persists holds the sku, and it is not row id
SkuOfDeleted(sku, id) ==
  \E i \in deleted \ {id} : rows[i].exists /\ rows[i].sku = sku

\* C19: when a deleted product whose row persists holds sku s, a Create
\* with sku s and an Update of another product to sku s fail with a conflict
\* (409) and leave the table as it was.
C19_SkuOfDeletedIsConflict ==
  [][\A p \in Procs :
       /\ (/\ pc[p] \in {"create_findBySku", "create_insert", "legacy_create"}
           /\ pc'[p] # pc[p]
           /\ SkuOfDeleted(The(req[p].data.sku), nextId))
            => /\ pc'[p] = "idle"
               /\ res'[p].status = 409
               /\ rows' = rows
       /\ (/\ pc[p] \in {"update_findBySku", "update_write",
                         "legacy_update_write"}
           /\ pc'[p] # pc[p]
           /\ rows[req[p].id].exists
           /\ req[p].data.sku # None
           /\ SkuOfDeleted(The(req[p].data.sku), req[p].id))
            => /\ pc'[p] = "idle"
               /\ res'[p].status = 409
               /\ rows' = rows]_vars

\* C20: a List request with page p, limit l (1 and 10 when omitted) that
\* counted t matching products returns the records after the first
\* (p - 1) * l of the ordered matching set, at most l of them, and the
\* metadata page = p, limit = l, total = t, totalPages = ceil(t / l),
\* hasNext = (p < totalPages) and hasPrev = (p > 1).
C20_ListPagination ==
  [][\A p \in Procs :
       (pc[p] = "list_findMany" /\ pc'[p] = "idle")
         => LET page == req[p].page
                limit == req[p].limit
                total == req[p].total
                all == orderBy(whereOf(rows, req[p]))
                list == res'[p].list
                pages == IF total % limit = 0 THEN total \div limit
                         ELSE total \div limit + 1
            IN /\ Len(list.data) <= limit
               /\ \A k \in DOMAIN list.data :
                    list.data[k] = all[(page - 1) * limit + k]
               /\ \A k \in 1..limit :
                    (page - 1) * limit + k <= Len(all) => k \in DOMAIN list.data
               /\ list.page = Some(page)
               /\ list.limit = Some(limit)
               /\ list.total = Some(total)
               /\ list.totalPages = Some(pages)
               /\ list.hasNext = Some(page < pages)
               /\ list.hasPrev = Some(page > 1)]_vars

\* C21: a List request that finds no matching product, at the count and at
\* the fetch, is answered 200 with data = [] and the metadata total = 0,
\* totalPages = 0, hasNext = false and hasPrev = false, whatever valid page
\* and limit it carries.
C21_EmptyListMetadata ==
  [][\A p \in Procs :
       (/\ pc[p] = "list_findMany"
        /\ pc'[p] = "idle"
        /\ req[p].total = 0
        /\ whereOf(rows, req[p]) = {})
         => LET list == res'[p].list
            IN /\ res'[p].kind = "ok"
               /\ res'[p].status = 200
               /\ list.data = <<>>
               /\ list.total = Some(0)
               /\ list.totalPages = Some(0)
               /\ list.hasNext = Some(FALSE)
               /\ list.hasPrev = Some(FALSE)]_vars

\* C22: in every List response the count and the page agree: total is the
\* number of products that match the filter when the page is fetched, and
\* the page is positions skip + 1 .. skip + limit of that ordered matching
\* set (empty beyond the last page), also when other requests changed the
\* table between the count query and the fetch query.
C22_CountMatchesPage ==
  [][\A p \in Procs :
       (pc[p] = "list_findMany" /\ pc'[p] = "idle")
         => LET all == orderBy(whereOf(rows, req[p]))
                skip == (req[p].page - 1) * req[p].limit
                list == res'[p].list
            IN /\ res'[p].kind = "ok"
               /\ list.total = Some(Len(all))
               /\ Len(list.data) <= req[p].limit
               /\ \A k \in 1..req[p].limit :
                    IF skip + k <= Len(all)
                    THEN k \in DOMAIN list.data /\ list.data[k] = all[skip + k]
                    ELSE k \notin DOMAIN list.data]_vars

\* C23: a List request that carries minPrice and maxPrice with
\* minPrice > maxPrice is ended by the handler with a validation error
\* (400) before any storage query; it is not answered with a page.
C23_InvertedPriceRangeRejected ==
  [][\A p \in Procs : \A query \in PriceQueryParams :
       (/\ query.minPrice # None
        /\ query.maxPrice # None
        /\ The(query.minPrice) > The(query.maxPrice)
        /\ controller_getAll(p, query))
         => /\ pc'[p] = "idle"
            /\ res'[p].kind = "ValidationError"
            /\ res'[p].status = 400]_vars

\* C24: FindLowStock(threshold) returns exactly the stored products whose
\* quantity is at most the threshold, those of quantity 0 included, in
\* ascending order of quantity.
C24_LowStockComplete ==
  [][\A p \in Procs :
       (pc[p] = "lowStock_findMany" /\ pc'[p] = "idle")
         => LET data == res'[p].list.data
            IN /\ res'[p].kind = "ok"
               /\ {data[k] : k \in DOMAIN data} =
                    {i \in Ids : rows[i].exists
                                 /\ rows[i].quantity <= req[p].threshold}
               /\ \A a, b \in DOMAIN data :
                    a < b => rows[data[a]].quantity <= rows[data[b]].quantity]_vars

\* C25: when a Create has answered with the created record and, with no
\* mutation in between, a GetById of the id of that record has answered, the
\* record of the GetById equals the created one in every field the model
\* keeps.
C25_CreateThenGetRoundTrip ==
  \A q \in Procs \ {1} :
    (/\ res[1].kind = "ok"
     /\ res[1].status = 201
     /\ res[q].kind = "ok"
     /\ res[q].product.id = res[1].product.id)
      => res[q].product = res[1].product

\* C25 witness: a product created with a positive quantity has been read
\* back by id and both requests were answered with a record of that id.
C25_Witness ==
  \E q \in Procs \ {1} :
    /\ res[1].kind = "ok"
    /\ res[1].status = 201
    /\ res[1].product.id = 1
    /\ res[1].product.quantity = MaxQty
    /\ res[q].kind = "ok"
    /\ res[q].status = 200
    /\ res[q].product.id = 1

\* C26: when a stock update with operation set and quantity N is answered
\* with success directly after the same call was answered with success, the
\* second call leaves the quantity and the inStock flag of the product as
\* the first call left them.
C26_SetStockIdempotent ==
  [][\A p \in Procs \ {1} :
       (/\ pc[p] \in {"stock_update", "legacy_stock_write"}
        /\ pc'[p] = "idle"
        /\ res'[p].kind = "ok")
         => /\ rows'[1].quantity = rows[1].quantity
            /\ rows'[1].inStock = rows[1].inStock]_vars

\* C26 witness: a product created with another quantity has been set to
\* MaxQty twice in succession and both calls were answered with success.
C26_Witness ==
  /\ given.quantity = 0
  /\ given.calls[1].quantity = MaxQty
  /\ \A p \in Procs : pc[p] = "idle" /\ res[p].kind = "ok"
  /\ rows[1].quantity = MaxQty
  /\ rows[1].inStock

\* the write client p of the functional service is about to make fails: the
\* row is gone, or prisma.product.update raises an error
WriteFails(p) ==
  /\ pc[p] \in {"update_write", "stock_update", "reserve_updateStock",
                "delete_softDelete"}
  /\ \/ ~rows[req[p].id].exists
     \/ /\ pc[p] = "update_write"
        /\ PrismaUpdateError(rows, req[p].id, updatedData(req[p].data, loc[p]))
             # "none"

\* C27: when the storage write of an Update, a Delete, a SetStock or a
\* ReserveStock fails, the request is answered with an error: a ReserveStock
\* does not answer true and a Delete does not complete normally.
C27_NoSwallowedWriteFailure ==
  [][\A p \in Procs :
       (WriteFails(p) /\ pc'[p] = "idle") => res'[p].kind # "ok"]_vars

\* the stored products one of whose name, description, sku or category
\* contains the term, whatever the case of the letters
MatchesAnyField(db, term) ==
  {i \in Ids : /\ db[i].exists
               /\ \/ contains(Some(db[i].name), term)
                  \/ contains(db[i].description, term)
                  \/ contains(Some(db[i].sku), term)
                  \/ contains(Some(db[i].category), term)}

\* C28: a search answers with every stored product one of whose name,
\* description, sku or category contains the term case-insensitively, and a
\* list request with a search term answers with the listed products that
\* match the term on the same four fields.
C28_SearchCoversFourFields ==
  [][\A p \in Procs :
       /\ (pc[p] = "legacy_search" /\ pc'[p] = "idle")
            => LET data == res'[p].list.data
               IN {data[k] : k \in DOMAIN data} =
                    MatchesAnyField(rows, The(req[p].search))
       /\ (pc[p] = "list_findMany" /\ pc'[p] = "idle" /\ req[p].search # None)
            => LET data == res'[p].list.data
               IN {data[k] : k \in DOMAIN data} =
                    where(rows) \cap MatchesAnyField(rows, The(req[p].search))]_vars

\* C29: when an Update that supplies no quantity writes after a SetStock or a
\* ReserveStock has changed the stock of the product it read, the write keeps
\* the quantity and the inStock flag the stock mutation stored, so a product
\* with inStock = (quantity > 0) still has it.
C29_UpdateKeepsConcurrentStock ==
  [][\A p \in Procs :
       (/\ pc[p] = "update_write"
        /\ pc'[p] = "idle"
        /\ res'[p].kind = "ok"
        /\ req[p].data.quantity = None
        /\ \/ rows[req[p].id].quantity # loc[p].quantity
           \/ rows[req[p].id].inStock # loc[p].inStock)
         => /\ rows'[req[p].id].quantity = rows[req[p].id].quantity
            /\ rows'[req[p].id].inStock = rows[req[p].id].inStock]_vars

\* C30: a ReserveStock whose id matches no stored product returns false, ends
\* at the availability check without a decrement, and leaves every stored
\* product as it was.
C30_ReserveMissingReturnsFalse ==
  [][\A p \in Procs :
       (/\ pc[p] = "reserve_check"
        /\ pc'[p] # pc[p]
        /\ ~rows[req[p].id].exists)
         => /\ pc'[p] = "idle"
            /\ res'[p].kind = "ok"
            /\ res'[p].ret = "false"
            /\ rows' = rows]_vars

\* C30 witness: no product was ever created and a ReserveStock was answered
\* false.
C30_Witness ==
  /\ nextId = 1
  /\ \A i \in Ids : ~rows[i].exists
  /\ pc[1] = "idle"
  /\ res[1].kind = "ok"
  /\ res[1].ret = "false"

====
